---- MODULE Spec2Model ----
(***************************************************************************)
(* Offline-first task synchronisation: the sync queue, the sync cycle      *)
(* (SyncService.sync), the local task mutations that feed the queue        *)
(* (TaskService) and the HTTP trigger (POST /sync).                        *)
(*                                                                         *)
(* The sync_queue table is modelled with the union of the columns that the *)
(* statements in the source name: TaskService writes operation_type and    *)
(* task_snapshot, SyncService.addToSyncQueue writes operation and data,    *)
(* and SyncService.sync reads item.operation, item.task_id and attempts.   *)
(* A column an INSERT does not name is NULL (attempts defaults to 0).      *)
(* created_at is modelled by the insertion position: rows are appended at  *)
(* increasing instants, so ORDER BY created_at ASC is the sequence order.  *)
(* Every `await` of sync() is one atomic step; database statements are     *)
(* assumed to succeed. A TaskService mutation (task write, then queue      *)
(* INSERT) is one step. The nested batch loops of sync() visit the         *)
(* selected rows one by one in selection order, whatever SYNC_BATCH_SIZE   *)
(* is, so the model iterates over the selection directly.                  *)
(* SyncService.handleSyncError, updateSyncStatus, processBatch and         *)
(* checkConnectivity have no caller in sync() or in POST /sync: no step of *)
(* a cycle runs them, and dead_letter_queue is never written by a cycle.   *)
(* handleSyncError is therefore applied on its own, between cycles, in     *)
(* SpecEscalation; checkConnectivity is called by GET /status (SpecProbe). *)
(* POST /batch (the handler that verifies a checksum) is modelled in       *)
(* SpecBatch, sha256 taken as collision-free; TaskService calls with their *)
(* return values, rejected ones included, are modelled in SpecLocal.       *)
(* sent and failures record what the remote peer has received and          *)
(* answered; the program does not read them.                               *)
(***************************************************************************)
EXTENDS Integers, Sequences, FiniteSets, TLC

\* ---- bounds of the model ----
MaxEntries == 2          \* rows ever inserted into sync_queue
MaxClock == 2            \* instants of the wall clock
MaxCrashes == 1          \* process restarts
MaxTime == 2             \* updated_at instants of the versions given to resolveConflict

\* ---- program constants ----
MAX_ATTEMPTS == 3        \* WHERE attempts < 3
RETRY_LIMIT == 3         \* handleSyncError: if (newCount >= 3)

NULL == "null"
NoTime == 0
TaskOrder == <<"t1", "t2">>
TaskIds == {TaskOrder[k] : k \in 1..Len(TaskOrder)}
Cycles == {1, 2}         \* HTTP requests POST /sync that may be in flight together
Ops == {"create", "update", "delete"}
\* what the remote peer answers to one request; every non-ok answer makes axios throw
RemoteOutcomes == {"ok", "transient", "validation", "checksum"}
TransientOutcomes == {"ok", "transient"}
ProbeError == "No internet connection or sync process failed"
\* what becomes of the GET /health request of checkConnectivity: an HTTP response with a
\* status, no response within the timeout, or a network / DNS error
HealthOutcomes ==
    {[kind |-> "response", status |-> st] : st \in {200, 204, 404, 500}}
    \cup {[kind |-> "timeout", status |-> 0], [kind |-> "network", status |-> 0]}

VARIABLES
    tasks,          \* table tasks: TaskIds -> row (exists = FALSE: no such row)
    sync_queue,     \* table sync_queue, in created_at order
    dead_letter_queue, \* table dead_letter_queue
    nextId,         \* next sync_queue row id
    clock,          \* new Date()
    crashes,        \* process restarts so far
    pc,             \* per cycle: where sync() is suspended
    queueItems,     \* per cycle: the rows selected at the start of sync()
    idx,            \* per cycle: position in queueItems of the current item
    syncedCount,    \* per cycle
    failedCount,    \* per cycle
    errors,         \* per cycle: SyncError list
    errMsg,         \* per cycle: err.message of the exception being handled
    response,       \* per cycle: last HTTP response of POST /sync
    sent,           \* per queue row id: attempts value of the row at each remote request issued for it
    failures,       \* per queue row id: requests the remote peer answered with a failure
    localTask,      \* resolveConflict: the local version
    serverTask,     \* resolveConflict: the remote version
    resolved,       \* resolveConflict: the value returned, once it has returned
    probe,          \* checkConnectivity: the health answer and what the last call made of it
    batch,          \* POST /batch: the request body and the response of the last call
    lastCall        \* TaskService: the last updateTask / deleteTask call and what it returned

vars == <<tasks, sync_queue, dead_letter_queue, nextId, clock, crashes, pc, queueItems, idx,
          syncedCount, failedCount, errors, errMsg, response, sent, failures,
          localTask, serverTask, resolved, probe, batch,
          lastCall>>

dbVars == <<tasks, sync_queue, dead_letter_queue, nextId>>
cycleVars == <<pc, queueItems, idx, syncedCount, failedCount, errors, errMsg, response>>
conflictVars == <<localTask, serverTask, resolved>>

EntryIds == 1..(MaxEntries + 1)

\* ---- rows ----
NoTask == [exists |-> FALSE, completed |-> FALSE, is_deleted |-> FALSE,
           updated_at |-> NoTime, sync_status |-> "pending", last_synced_at |-> NoTime]

NewTask(now) == [exists |-> TRUE, completed |-> FALSE, is_deleted |-> FALSE,
                 updated_at |-> now, sync_status |-> "pending", last_synced_at |-> NoTime]

\* a row written by TaskService: operation_type and task_snapshot are set, operation is not;
\* retry_count is not written either, and handleSyncError reads the null as 0 (null + 1 = 1)
SnapshotRow(id, taskId, snapshotId, opType) ==
    [id |-> id, task_id |-> taskId, operation |-> NULL, operation_type |-> opType,
     snapshot |-> snapshotId, attempts |-> 0, retry_count |-> 0, error_message |-> NULL]

\* a row written by SyncService.addToSyncQueue: task_id, operation and data are set
OperationRow(id, taskId, op) ==
    [id |-> id, task_id |-> taskId, operation |-> op, operation_type |-> NULL,
     snapshot |-> taskId, attempts |-> 0, retry_count |-> 0, error_message |-> NULL]

\* the task a queue row was enqueued for
Owner(row) == row.snapshot

\* ---- queries and statements ----
\* mutant of SelectEligible: the filter reads attempts <= 3
SelectEligibleInclusive(q) == SelectSeq(q, LAMBDA r : r.attempts <= MAX_ATTEMPTS)

\* SELECT * FROM sync_queue WHERE attempts < 3 ORDER BY created_at ASC
SelectEligible(q) == SelectSeq(q, LAMBDA r : r.attempts < MAX_ATTEMPTS)

\* DELETE FROM sync_queue WHERE id = ?
DeleteById(q, id) == SelectSeq(q, LAMBDA r : r.id # id)

\* UPDATE sync_queue SET attempts = attempts + 1, error_message = ? WHERE id = ?
RecordAttempt(q, id, msg) ==
    [k \in 1..Len(q) |->
        IF q[k].id = id
        THEN [q[k] EXCEPT !.attempts = @ + 1, !.error_message = msg]
        ELSE q[k]]

\* UPDATE tasks SET sync_status = 'synced', last_synced_at = ?, updated_at = ? WHERE id = ?
markTaskAsSynced(ts, taskId, now) ==
    [t \in TaskIds |->
        IF t = taskId /\ ts[t].exists
        THEN [ts[t] EXCEPT !.sync_status = "synced", !.last_synced_at = now, !.updated_at = now]
        ELSE ts[t]]

\* TaskService.getTask: null (the empty sequence) when the row is missing or soft-deleted
getTask(ts, id) == IF ts[id].exists /\ ~ts[id].is_deleted THEN <<ts[id]>> ELSE <<>>

\* SELECT * FROM tasks WHERE is_deleted = 0 (the ids of the rows; their order is not modelled)
getAllTasks(ts) == {t \in TaskIds : ts[t].exists /\ ~ts[t].is_deleted}

\* SELECT * FROM tasks WHERE sync_status IN ('pending', 'error') AND is_deleted = 0
getTasksNeedingSync(ts) ==
    {t \in TaskIds : /\ ts[t].exists
                     /\ ts[t].sync_status \in {"pending", "error"}
                     /\ ~ts[t].is_deleted}

\* updateSyncStatus, its UPDATE tasks SET sync_status = ?, last_synced_at = ? WHERE id = ?
SetSyncStatus(ts, taskId, status, now) ==
    [t \in TaskIds |->
        IF t = taskId /\ ts[t].exists
        THEN [ts[t] EXCEPT !.sync_status = status, !.last_synced_at = now]
        ELSE ts[t]]

\* mutant of PurgeQueue: the rows of the task stay in the queue
PurgeQueueKeep(q, taskId, status) == q

\* updateSyncStatus, its DELETE FROM sync_queue WHERE task_id = ? for 'synced' and 'failed'
\* (a null task_id matches no row)
PurgeQueue(q, taskId, status) ==
    IF status \in {"synced", "failed"} /\ taskId # NULL
    THEN SelectSeq(q, LAMBDA r : r.task_id # taskId)
    ELSE q

\* INSERT INTO dead_letter_queue (id, task_id, operation, data, error_message)
DeadLetterRow(item, msg) ==
    [id |-> item.id, task_id |-> item.task_id, operation |-> item.operation,
     snapshot |-> item.snapshot, error_message |-> msg]

\* UPDATE sync_queue SET retry_count = ?, error_message = ? WHERE id = ?
RecordRetry(q, id, count, msg) ==
    [k \in 1..Len(q) |->
        IF q[k].id = id
        THEN [q[k] EXCEPT !.retry_count = count, !.error_message = msg]
        ELSE q[k]]

InDeadLetter(id) == \E i \in 1..Len(dead_letter_queue) : dead_letter_queue[i].id = id

\* does sync() issue a remote request for this item? (the if / else-if chain on item.operation)
IssuesRequest(item) == item.operation \in Ops

\* the await at which sync() suspends when it starts on an item
ItemPc(item) == IF IssuesRequest(item) THEN "request" ELSE "delete"

HasRow(q, id) == \E k \in 1..Len(q) : q[k].id = id

SyncResult(ok, nSynced, nFailed, errs) ==
    [success |-> ok, synced_items |-> nSynced, failed_items |-> nFailed, errors |-> errs]

\* res.status(200).json({message, result})
Http200(result) == [status |-> 200, error |-> NULL, result |-> <<result>>]

\* res.status(500).json({error})
Http500 == [status |-> 500, error |-> ProbeError, result |-> <<>>]

NoResponse == [status |-> 0, error |-> NULL, result |-> <<>>]

\* uuidv4(): an id no task row has; the model takes the ids in a fixed order
FreshId(ts, t) ==
    \E k \in 1..Len(TaskOrder) :
        /\ TaskOrder[k] = t
        /\ ~ts[t].exists
        /\ \A j \in 1..(k - 1) : ts[TaskOrder[j]].exists

\* ---- resolveConflict ----
\* a Task as resolveConflict reads it: updated_at is a Date or an ISO string of an instant
TaskVersions ==
    [updated_at : [ms : 1..MaxTime, fmt : {"date", "iso"}],
     is_deleted : BOOLEAN, completed : BOOLEAN]

\* new Date(x).getTime()
getTime(x) == x.ms

\* mutant of resolveConflict: the last return gives the remote version
resolveConflictServerOnTie(local, server) ==
    LET localTime == getTime(local.updated_at)
        serverTime == getTime(server.updated_at)
    IN  IF localTime > serverTime THEN local
        ELSE IF serverTime > localTime THEN server
        ELSE IF local.is_deleted /\ ~server.is_deleted THEN local
        ELSE IF server.is_deleted /\ ~local.is_deleted THEN server
        ELSE server

resolveConflict(local, server) ==
    LET localTime == getTime(local.updated_at)
        serverTime == getTime(server.updated_at)
    IN  IF localTime > serverTime THEN local
        ELSE IF serverTime > localTime THEN server
        ELSE IF local.is_deleted /\ ~server.is_deleted THEN local
        ELSE IF server.is_deleted /\ ~local.is_deleted THEN server
        ELSE local

NoVersion == [updated_at |-> [ms |-> 1, fmt |-> "date"], is_deleted |-> FALSE, completed |-> FALSE]

\* ---- initial state: empty tables, no request in flight ----
InitEngine ==
    /\ tasks = [t \in TaskIds |-> NoTask]
    /\ sync_queue = <<>>
    /\ dead_letter_queue = <<>>
    /\ nextId = 1
    /\ clock = 1
    /\ crashes = 0
    /\ pc = [c \in Cycles |-> "idle"]
    /\ queueItems = [c \in Cycles |-> <<>>]
    /\ idx = [c \in Cycles |-> 0]
    /\ syncedCount = [c \in Cycles |-> 0]
    /\ failedCount = [c \in Cycles |-> 0]
    /\ errors = [c \in Cycles |-> <<>>]
    /\ errMsg = [c \in Cycles |-> NULL]
    /\ response = [c \in Cycles |-> NoResponse]
    /\ sent = [i \in EntryIds |-> <<>>]
    /\ failures = [i \in EntryIds |-> 0]
    /\ probe = <<>>
    /\ batch = <<>>
    /\ lastCall = <<>>

Init ==
    /\ InitEngine
    /\ localTask = NoVersion
    /\ serverTask = NoVersion
    /\ resolved = <<>>

\* resolveConflict is given any two versions
InitConflict ==
    /\ InitEngine
    /\ localTask \in TaskVersions
    /\ serverTask \in TaskVersions
    /\ resolved = <<>>

ResolveConflict ==
    /\ resolved = <<>>
    /\ resolved' = <<resolveConflict(localTask, serverTask)>>
    /\ UNCHANGED <<localTask, serverTask, clock, crashes, sent, failures, probe, batch,
                   lastCall>>
    /\ UNCHANGED dbVars
    /\ UNCHANGED cycleVars

\* ---- TaskService ----
\* TaskService.createTask (src/services/taskService.ts): the queue INSERT names no task_id
createTask(t) ==
    /\ nextId <= MaxEntries
    /\ FreshId(tasks, t)
    /\ tasks' = [tasks EXCEPT ![t] = NewTask(clock)]
    /\ sync_queue' = Append(sync_queue, SnapshotRow(nextId, NULL, t, "create"))
    /\ nextId' = nextId + 1
    /\ UNCHANGED <<dead_letter_queue, clock, crashes, sent, failures>>
    /\ UNCHANGED cycleVars
    /\ UNCHANGED conflictVars
    /\ UNCHANGED probe
    /\ UNCHANGED batch
    /\ UNCHANGED lastCall

\* the second copy of TaskService.createTask: the queue INSERT names task_id
createTaskWithTaskId(t) ==
    /\ nextId <= MaxEntries
    /\ FreshId(tasks, t)
    /\ tasks' = [tasks EXCEPT ![t] = NewTask(clock)]
    /\ sync_queue' = Append(sync_queue, SnapshotRow(nextId, t, t, "create"))
    /\ nextId' = nextId + 1
    /\ UNCHANGED <<dead_letter_queue, clock, crashes, sent, failures>>
    /\ UNCHANGED cycleVars
    /\ UNCHANGED conflictVars
    /\ UNCHANGED probe
    /\ UNCHANGED batch
    /\ UNCHANGED lastCall

\* TaskService.updateTask on a task that exists and is not soft-deleted
updateTask(t, completed) ==
    /\ nextId <= MaxEntries
    /\ tasks[t].exists /\ ~tasks[t].is_deleted
    /\ tasks' = [tasks EXCEPT ![t] = [@ EXCEPT !.completed = completed,
                                                !.updated_at = clock,
                                                !.sync_status = "pending"]]
    /\ sync_queue' = Append(sync_queue, SnapshotRow(nextId, NULL, t, "update"))
    /\ nextId' = nextId + 1
    /\ UNCHANGED <<dead_letter_queue, clock, crashes, sent, failures>>
    /\ UNCHANGED cycleVars
    /\ UNCHANGED conflictVars
    /\ UNCHANGED probe
    /\ UNCHANGED batch
    /\ UNCHANGED lastCall

\* TaskService.deleteTask on a task row that exists (soft-deleted or not)
deleteTask(t) ==
    /\ nextId <= MaxEntries
    /\ tasks[t].exists
    /\ tasks' = [tasks EXCEPT ![t] = [@ EXCEPT !.is_deleted = TRUE,
                                                !.updated_at = clock,
                                                !.sync_status = "pending"]]
    /\ sync_queue' = Append(sync_queue, SnapshotRow(nextId, NULL, t, "delete"))
    /\ nextId' = nextId + 1
    /\ UNCHANGED <<dead_letter_queue, clock, crashes, sent, failures>>
    /\ UNCHANGED cycleVars
    /\ UNCHANGED conflictVars
    /\ UNCHANGED probe
    /\ UNCHANGED batch
    /\ UNCHANGED lastCall

\* ---- SyncService.addToSyncQueue ----
addToSyncQueue(t, op) ==
    /\ nextId <= MaxEntries
    /\ sync_queue' = Append(sync_queue, OperationRow(nextId, t, op))
    /\ nextId' = nextId + 1
    /\ UNCHANGED <<tasks, dead_letter_queue, clock, crashes, sent, failures>>
    /\ UNCHANGED cycleVars
    /\ UNCHANGED conflictVars
    /\ UNCHANGED probe
    /\ UNCHANGED batch
    /\ UNCHANGED lastCall

\* SyncService.handleSyncError(item, error), item being row k of the sync queue. The method
\* has no caller in the sources; it is applied here while no cycle is running. An INSERT of
\* an id the dead-letter queue already holds is rejected (PRIMARY KEY) and ends the method.
handleSyncError(k, msg) ==
    /\ \A c \in Cycles : pc[c] = "idle"
    /\ k \in 1..Len(sync_queue)
    /\ LET item == sync_queue[k]
           newCount == item.retry_count + 1
       IN  IF newCount >= RETRY_LIMIT
           THEN IF InDeadLetter(item.id)
                THEN UNCHANGED <<tasks, sync_queue, dead_letter_queue>>
                ELSE /\ dead_letter_queue' = Append(dead_letter_queue, DeadLetterRow(item, msg))
                     /\ tasks' = SetSyncStatus(tasks, item.task_id, "failed", clock)
                     /\ sync_queue' = PurgeQueue(sync_queue, item.task_id, "failed")
           ELSE /\ sync_queue' = PurgeQueue(RecordRetry(sync_queue, item.id, newCount, msg),
                                            item.task_id, "error")
                /\ tasks' = SetSyncStatus(tasks, item.task_id, "error", clock)
                /\ UNCHANGED dead_letter_queue
    /\ UNCHANGED <<nextId, clock, crashes, sent, failures>>
    /\ UNCHANGED cycleVars
    /\ UNCHANGED conflictVars
    /\ UNCHANGED probe
    /\ UNCHANGED batch
    /\ UNCHANGED lastCall

\* ---- SyncService.checkConnectivity ----
\* axios.get(url, {timeout}): resolves with the response for a 2xx status, rejects for any
\* other status, for a timeout and for a network error
AxiosGet(outcome) ==
    [threw  |-> ~(outcome.kind = "response" /\ outcome.status >= 200 /\ outcome.status < 300),
     status |-> outcome.status]

\* mutant of checkConnectivity: the rejection of axios.get is not caught
checkConnectivityUncaught(outcome) ==
    LET r == AxiosGet(outcome)
    IN  IF r.threw
        THEN [raised |-> TRUE, value |-> FALSE]
        ELSE [raised |-> FALSE, value |-> (r.status = 200)]

\* try { return response.status === 200 } catch { return false }
checkConnectivity(outcome) ==
    LET r == AxiosGet(outcome)
    IN  IF r.threw
        THEN [raised |-> FALSE, value |-> FALSE]
        ELSE [raised |-> FALSE, value |-> (r.status = 200)]

\* a call of checkConnectivity (GET /status makes one), the health request ending in `outcome`
ProbeHealth(outcome) ==
    /\ probe' = <<[health |-> outcome, answer |-> checkConnectivity(outcome)]>>
    /\ UNCHANGED <<clock, crashes, sent, failures>>
    /\ UNCHANGED dbVars
    /\ UNCHANGED cycleVars
    /\ UNCHANGED conflictVars
    /\ UNCHANGED batch
    /\ UNCHANGED lastCall

\* ---- POST /batch (the handler that verifies a checksum) ----
\* the tables TaskService writes, as one value
TaskDb(ts, q, n) == [tasks |-> ts, sync_queue |-> q, nextId |-> n, full |-> FALSE]

\* the id createTask gives the new task (uuidv4: the first id not yet in the table)
NewTaskId(ts) ==
    LET free == {k \in 1..Len(TaskOrder) : ~ts[TaskOrder[k]].exists}
    IN  IF free = {} THEN NULL
        ELSE TaskOrder[CHOOSE k \in free : \A j \in free : k <= j]

\* TaskService.createTask as a function of the tables; `full` marks a table the model
\* cannot extend
createTaskOn(db, now) ==
    LET t == NewTaskId(db.tasks) IN
    IF t = NULL \/ db.nextId > MaxEntries
    THEN [db |-> [db EXCEPT !.full = TRUE], ret |-> "task"]
    ELSE [db |-> [db EXCEPT !.tasks = [@ EXCEPT ![t] = NewTask(now)],
                            !.sync_queue = Append(@, SnapshotRow(db.nextId, NULL, t, "create")),
                            !.nextId = @ + 1],
          ret |-> "task"]

\* mutant of UpdatableRow: updateTask goes on when the SELECT finds no row
UpdatableRowUnchecked(ts, t) == ~ts[t].is_deleted

\* SELECT * FROM tasks WHERE id = ? AND is_deleted = 0 finds a row
UpdatableRow(ts, t) == ts[t].exists /\ ~ts[t].is_deleted

\* TaskService.updateTask as a function of the tables: null when the row is missing or
\* soft-deleted
updateTaskOn(db, t, now) ==
    IF ~UpdatableRow(db.tasks, t)
    THEN [db |-> db, ret |-> "null"]
    ELSE IF db.nextId > MaxEntries
    THEN [db |-> [db EXCEPT !.full = TRUE], ret |-> "task"]
    ELSE [db |-> [db EXCEPT !.tasks = [@ EXCEPT ![t] = [@ EXCEPT !.completed = TRUE,
                                                                 !.updated_at = now,
                                                                 !.sync_status = "pending"]],
                            !.sync_queue = Append(@, SnapshotRow(db.nextId, NULL, t, "update")),
                            !.nextId = @ + 1],
          ret |-> "task"]

\* TaskService.deleteTask as a function of the tables: false when the row is missing
deleteTaskOn(db, t, now) ==
    IF ~db.tasks[t].exists
    THEN [db |-> db, ret |-> "false"]
    ELSE IF db.nextId > MaxEntries
    THEN [db |-> [db EXCEPT !.full = TRUE], ret |-> "true"]
    ELSE [db |-> [db EXCEPT !.tasks = [@ EXCEPT ![t] = [@ EXCEPT !.is_deleted = TRUE,
                                                                 !.updated_at = now,
                                                                 !.sync_status = "pending"]],
                            !.sync_queue = Append(@, SnapshotRow(db.nextId, NULL, t, "delete")),
                            !.nextId = @ + 1],
          ret |-> "true"]

\* an item of a batch: data is the id inside item.data, or NULL when the item has no data;
\* task_id is a value other than the id inside data, so that the two can be told apart
BatchItem(id, op, data) == [id |-> id, task_id |-> "t2", operation |-> op, data |-> data]

\* the request bodies given to the handler: up to MaxEntries items
BatchItems(n) ==
    [1..n -> {BatchItem(0, op, d) : op \in Ops, d \in {"t1", NULL}}]

BatchBodies ==
    UNION {{[k \in 1..n |-> [f[k] EXCEPT !.id = k]] : f \in BatchItems(n)} : n \in 0..MaxEntries}

\* sha256 over items.map(i => i.id + JSON.stringify(i.data)).join(''): the digest is
\* modelled by the string it is computed from (no collisions)
calculateChecksum(items) == [k \in 1..Len(items) |-> <<items[k].id, items[k].data>>]

\* verifyChecksum(items, checksum)
verifyChecksum(items, checksum) == calculateChecksum(items) = checksum

\* the body of the inner try for one item: the if / else-if chain on item.operation;
\* item.data.id of an item without data throws a TypeError, createTask reads taskData.title
TryItem(db, item, now) ==
    IF item.data = NULL
    THEN [db |-> db, ret |-> NULL, threw |-> TRUE]
    ELSE LET r == IF item.operation = "create" THEN createTaskOn(db, now)
                  ELSE IF item.operation = "update" THEN updateTaskOn(db, item.data, now)
                  ELSE deleteTaskOn(db, item.data, now)
         IN  [db |-> r.db, ret |-> r.ret, threw |-> FALSE]

\* results.push({...item, success, data | error})
BatchResult(item, ok, ret) ==
    [id |-> item.id, task_id |-> item.task_id, operation |-> item.operation,
     success |-> ok, data |-> ret]

\* mutant of BatchAfterCatch: an item that throws ends the loop
BatchAfterCatchAbort(items, k) == Len(items) + 1

\* the inner catch ends inside the for loop: the next item is applied
BatchAfterCatch(items, k) == k + 1

\* the for loop of the handler from item k on
RECURSIVE ApplyBatch(_, _, _, _, _)
ApplyBatch(db, items, k, results, now) ==
    IF k > Len(items)
    THEN [db |-> db, results |-> results]
    ELSE LET r == TryItem(db, items[k], now) IN
         IF r.threw
         THEN ApplyBatch(db, items, BatchAfterCatch(items, k),
                         Append(results, BatchResult(items[k], FALSE, "TypeError")), now)
         ELSE ApplyBatch(r.db, items, k + 1,
                         Append(results, BatchResult(items[k], TRUE, r.ret)), now)

CountSuccess(results, ok) == Cardinality({k \in 1..Len(results) : results[k].success = ok})

\* res.json({success: true, results, synced_items, failed_items})
BatchOk(results) ==
    [status |-> 200, results |-> results,
     synced_items |-> CountSuccess(results, TRUE), failed_items |-> CountSuccess(results, FALSE)]

\* res.status(400).json({error: 'Checksum verification failed'})
BatchRejected == [status |-> 400, results |-> <<>>, synced_items |-> 0, failed_items |-> 0]

\* router.post('/batch'), the whole handler
PostBatch(items, checksum) ==
    /\ batch = <<>>
    /\ IF ~verifyChecksum(items, checksum)
       THEN /\ batch' = <<[items |-> items, verified |-> FALSE, response |-> BatchRejected]>>
            /\ UNCHANGED <<tasks, sync_queue, nextId>>
       ELSE LET out == ApplyBatch(TaskDb(tasks, sync_queue, nextId), items, 1, <<>>, clock) IN
            /\ ~out.db.full
            /\ batch' = <<[items |-> items, verified |-> TRUE, response |-> BatchOk(out.results)]>>
            /\ tasks' = out.db.tasks
            /\ sync_queue' = out.db.sync_queue
            /\ nextId' = out.db.nextId
    /\ UNCHANGED <<dead_letter_queue, clock, crashes, sent, failures>>
    /\ UNCHANGED cycleVars
    /\ UNCHANGED conflictVars
    /\ UNCHANGED probe
    /\ UNCHANGED lastCall

\* the response has been sent; the next request may come
BatchDone ==
    /\ batch # <<>>
    /\ batch' = <<>>
    /\ UNCHANGED <<clock, crashes, sent, failures>>
    /\ UNCHANGED dbVars
    /\ UNCHANGED cycleVars
    /\ UNCHANGED conflictVars
    /\ UNCHANGED probe
    /\ UNCHANGED lastCall

\* ---- TaskService calls with their return value ----
\* TaskService.updateTask(t, updates), accepted or rejected
UpdateTaskCall(t) ==
    LET r == updateTaskOn(TaskDb(tasks, sync_queue, nextId), t, clock) IN
    /\ ~r.db.full
    /\ tasks' = r.db.tasks
    /\ sync_queue' = r.db.sync_queue
    /\ nextId' = r.db.nextId
    /\ lastCall' = <<[method |-> "updateTask", id |-> t, ret |-> r.ret]>>
    /\ UNCHANGED <<dead_letter_queue, clock, crashes, sent, failures>>
    /\ UNCHANGED cycleVars
    /\ UNCHANGED conflictVars
    /\ UNCHANGED probe
    /\ UNCHANGED batch

\* TaskService.deleteTask(t), accepted or rejected
DeleteTaskCall(t) ==
    LET r == deleteTaskOn(TaskDb(tasks, sync_queue, nextId), t, clock) IN
    /\ ~r.db.full
    /\ tasks' = r.db.tasks
    /\ sync_queue' = r.db.sync_queue
    /\ nextId' = r.db.nextId
    /\ lastCall' = <<[method |-> "deleteTask", id |-> t, ret |-> r.ret]>>
    /\ UNCHANGED <<dead_letter_queue, clock, crashes, sent, failures>>
    /\ UNCHANGED cycleVars
    /\ UNCHANGED conflictVars
    /\ UNCHANGED probe
    /\ UNCHANGED batch

\* ---- SyncService.sync, one cycle c ----
CurrentItem(c) == queueItems[c][idx[c]]

\* mutant of ReturnResult: success is reported whatever the failure count
ReturnResultAlwaysOk(nSynced, nFailed, errs) == SyncResult(TRUE, nSynced, nFailed, errs)

\* return {success: failedCount === 0, synced_items, failed_items, errors}
ReturnResult(nSynced, nFailed, errs) == SyncResult(nFailed = 0, nSynced, nFailed, errs)

\* sync() moves on to item k of its selection, or returns when the selection is exhausted
Proceed(c, items, k, nSynced, nFailed, errs) ==
    IF k > Len(items)
    THEN /\ pc' = [pc EXCEPT ![c] = "responded"]
         /\ response' = [response EXCEPT ![c] =
                            Http200(ReturnResult(nSynced, nFailed, errs))]
         /\ queueItems' = [queueItems EXCEPT ![c] = items]
         /\ idx' = [idx EXCEPT ![c] = 0]
         /\ syncedCount' = [syncedCount EXCEPT ![c] = 0]
         /\ failedCount' = [failedCount EXCEPT ![c] = 0]
         /\ errors' = [errors EXCEPT ![c] = <<>>]
         /\ sent' = sent
    ELSE /\ pc' = [pc EXCEPT ![c] = ItemPc(items[k])]
         /\ response' = response
         /\ queueItems' = [queueItems EXCEPT ![c] = items]
         /\ idx' = [idx EXCEPT ![c] = k]
         /\ syncedCount' = [syncedCount EXCEPT ![c] = nSynced]
         /\ failedCount' = [failedCount EXCEPT ![c] = nFailed]
         /\ errors' = [errors EXCEPT ![c] = errs]
         /\ sent' = IF IssuesRequest(items[k])
                    THEN [sent EXCEPT ![items[k].id] = Append(@, items[k].attempts)]
                    ELSE sent

\* POST /sync: dns.lookup fails, the handler answers 500 and sync() is not called
PostSyncOffline(c) ==
    /\ pc[c] = "idle"
    /\ response' = [response EXCEPT ![c] = Http500]
    /\ pc' = [pc EXCEPT ![c] = "responded"]
    /\ UNCHANGED <<queueItems, idx, syncedCount, failedCount, errors, errMsg>>
    /\ UNCHANGED <<clock, crashes, sent, failures>>
    /\ UNCHANGED dbVars
    /\ UNCHANGED conflictVars
    /\ UNCHANGED probe
    /\ UNCHANGED batch
    /\ UNCHANGED lastCall

\* POST /sync: dns.lookup succeeds, sync() selects the eligible rows
SyncBegin(c) ==
    /\ pc[c] = "idle"
    /\ Proceed(c, SelectEligible(sync_queue), 1, 0, 0, <<>>)
    /\ UNCHANGED <<errMsg, clock, crashes, failures>>
    /\ UNCHANGED dbVars
    /\ UNCHANGED conflictVars
    /\ UNCHANGED probe
    /\ UNCHANGED batch
    /\ UNCHANGED lastCall

\* the remote peer answers the request of the current item
RemoteResponds(c, outcome) ==
    /\ pc[c] = "request"
    /\ IF outcome = "ok"
       THEN /\ pc' = [pc EXCEPT ![c] = "delete"]
            /\ UNCHANGED <<failedCount, errMsg, failures>>
       ELSE /\ pc' = [pc EXCEPT ![c] = "record"]
            /\ failedCount' = [failedCount EXCEPT ![c] = @ + 1]
            /\ errMsg' = [errMsg EXCEPT ![c] = outcome]
            /\ failures' = [failures EXCEPT ![CurrentItem(c).id] = @ + 1]
    /\ UNCHANGED <<queueItems, idx, syncedCount, errors, response>>
    /\ UNCHANGED <<clock, crashes, sent>>
    /\ UNCHANGED dbVars
    /\ UNCHANGED conflictVars
    /\ UNCHANGED probe
    /\ UNCHANGED batch
    /\ UNCHANGED lastCall

\* DELETE FROM sync_queue WHERE id = item.id
DeleteRow(c) ==
    /\ pc[c] = "delete"
    /\ sync_queue' = DeleteById(sync_queue, CurrentItem(c).id)
    /\ pc' = [pc EXCEPT ![c] = "mark"]
    /\ UNCHANGED <<tasks, dead_letter_queue, nextId, clock, crashes, sent, failures>>
    /\ UNCHANGED <<queueItems, idx, syncedCount, failedCount, errors, errMsg, response>>
    /\ UNCHANGED conflictVars
    /\ UNCHANGED probe
    /\ UNCHANGED batch
    /\ UNCHANGED lastCall

\* taskService.markTaskAsSynced(item.task_id); syncedCount++
MarkSynced(c) ==
    /\ pc[c] = "mark"
    /\ tasks' = markTaskAsSynced(tasks, CurrentItem(c).task_id, clock)
    /\ Proceed(c, queueItems[c], idx[c] + 1, syncedCount[c] + 1, failedCount[c], errors[c])
    /\ UNCHANGED <<sync_queue, dead_letter_queue, nextId, clock, crashes, errMsg, failures>>
    /\ UNCHANGED conflictVars
    /\ UNCHANGED probe
    /\ UNCHANGED batch
    /\ UNCHANGED lastCall

\* mutant of PushError: the new element is put in front of the list
PushErrorFront(errs, item, msg) ==
    <<[task_id |-> item.task_id, operation |-> item.operation, error |-> msg]>> \o errs

\* errors.push({task_id: item.task_id, operation: item.operation, error: errorMessage, ...})
PushError(errs, item, msg) ==
    Append(errs, [task_id |-> item.task_id, operation |-> item.operation, error |-> msg])

\* mutant of AfterCatch: the failure leaves the loop
AfterCatchAbort(items, k) == Len(items) + 1

\* the catch block ends inside the for loop: the iteration goes on with the next item
AfterCatch(items, k) == k + 1

\* the catch block: UPDATE sync_queue SET attempts = attempts + 1 ...; errors.push(...)
RecordFailure(c) ==
    /\ pc[c] = "record"
    /\ sync_queue' = RecordAttempt(sync_queue, CurrentItem(c).id, errMsg[c])
    /\ Proceed(c, queueItems[c], AfterCatch(queueItems[c], idx[c]), syncedCount[c],
               failedCount[c],
               PushError(errors[c], CurrentItem(c), errMsg[c]))
    /\ errMsg' = [errMsg EXCEPT ![c] = NULL]
    /\ UNCHANGED <<tasks, dead_letter_queue, nextId, clock, crashes, failures>>
    /\ UNCHANGED conflictVars
    /\ UNCHANGED probe
    /\ UNCHANGED batch
    /\ UNCHANGED lastCall

\* the HTTP exchange of POST /sync ends; the handler holds nothing any more
Close(c) ==
    /\ pc[c] = "responded"
    /\ pc' = [pc EXCEPT ![c] = "idle"]
    /\ response' = [response EXCEPT ![c] = NoResponse]
    /\ queueItems' = [queueItems EXCEPT ![c] = <<>>]
    /\ UNCHANGED <<idx, syncedCount, failedCount, errors, errMsg>>
    /\ UNCHANGED <<clock, crashes, sent, failures>>
    /\ UNCHANGED dbVars
    /\ UNCHANGED conflictVars
    /\ UNCHANGED probe
    /\ UNCHANGED batch
    /\ UNCHANGED lastCall

\* the process stops between two awaits; the tables survive, the requests in flight do not
Crash ==
    /\ crashes < MaxCrashes
    /\ \E c \in Cycles : pc[c] # "idle"
    /\ crashes' = crashes + 1
    /\ pc' = [c \in Cycles |-> "idle"]
    /\ queueItems' = [c \in Cycles |-> <<>>]
    /\ idx' = [c \in Cycles |-> 0]
    /\ syncedCount' = [c \in Cycles |-> 0]
    /\ failedCount' = [c \in Cycles |-> 0]
    /\ errors' = [c \in Cycles |-> <<>>]
    /\ errMsg' = [c \in Cycles |-> NULL]
    /\ response' = [c \in Cycles |-> NoResponse]
    /\ UNCHANGED <<clock, sent, failures>>
    /\ UNCHANGED dbVars
    /\ UNCHANGED conflictVars
    /\ UNCHANGED probe
    /\ UNCHANGED batch
    /\ UNCHANGED lastCall

\* time passes
Tick ==
    /\ clock < MaxClock
    /\ clock' = clock + 1
    /\ UNCHANGED <<crashes, sent, failures>>
    /\ UNCHANGED dbVars
    /\ UNCHANGED cycleVars
    /\ UNCHANGED conflictVars
    /\ UNCHANGED probe
    /\ UNCHANGED batch
    /\ UNCHANGED lastCall

\* the local mutations that append to the sync queue
TaskMutation ==
    \/ \E t \in TaskIds : createTask(t)
    \/ \E t \in TaskIds : createTaskWithTaskId(t)
    \/ \E t \in TaskIds : updateTask(t, TRUE)
    \/ \E t \in TaskIds : deleteTask(t)

\* one step of the POST /sync handler c, the remote peer answering from `outcomes`
CycleStep(c, outcomes) ==
    \/ PostSyncOffline(c)
    \/ SyncBegin(c)
    \/ \E o \in outcomes : RemoteResponds(c, o)
    \/ DeleteRow(c)
    \/ MarkSynced(c)
    \/ RecordFailure(c)
    \/ Close(c)

\* one POST /sync at a time; the remote peer accepts a request or fails transiently
Next ==
    \/ TaskMutation
    \/ \E t \in TaskIds, op \in Ops : addToSyncQueue(t, op)
    \/ CycleStep(1, TransientOutcomes)

Spec == Init /\ [][Next]_vars

\* one POST /sync at a time; the remote peer answers with any outcome
NextRemote ==
    \/ \E t \in TaskIds, op \in Ops : addToSyncQueue(t, op)
    \/ CycleStep(1, RemoteOutcomes)

SpecRemote == Init /\ [][NextRemote]_vars

\* two POST /sync requests may overlap
NextConcurrent ==
    \/ \E op \in Ops : addToSyncQueue("t1", op)
    \/ \E c \in Cycles : CycleStep(c, TransientOutcomes)

SpecConcurrent == Init /\ [][NextConcurrent]_vars

\* one POST /sync at a time; the process may stop between two awaits
NextCrash ==
    \/ Next
    \/ Crash

SpecCrash == Init /\ [][NextCrash]_vars

\* one POST /sync at a time; the wall clock advances
NextTimed ==
    \/ Next
    \/ Tick

SpecTimed == Init /\ [][NextTimed]_vars

\* cycles are triggered again and again while the device is online, and every await of a
\* running cycle settles: the remote peer answers and the database statements complete
CycleFairness ==
    /\ SF_vars(SyncBegin(1))
    /\ WF_vars(\E o \in TransientOutcomes : RemoteResponds(1, o))
    /\ WF_vars(DeleteRow(1))
    /\ WF_vars(MarkSynced(1))
    /\ WF_vars(RecordFailure(1))
    /\ WF_vars(Close(1))

\* one POST /sync at a time, repeated for ever
SpecFair == Init /\ [][Next]_vars /\ CycleFairness

\* one POST /sync at a time; between cycles handleSyncError is applied to rows of the queue
NextEscalation ==
    \/ \E t \in TaskIds : createTask(t)
    \/ \E t \in TaskIds : addToSyncQueue(t, "update")
    \/ \E k \in 1..MaxEntries : handleSyncError(k, "transient")
    \/ CycleStep(1, TransientOutcomes)

SpecEscalation == Init /\ [][NextEscalation]_vars

\* local mutations and enqueues, with connectivity probes in between
NextProbe ==
    \/ TaskMutation
    \/ \E t \in TaskIds, op \in Ops : addToSyncQueue(t, op)
    \/ \E o \in HealthOutcomes : ProbeHealth(o)

SpecProbe == Init /\ [][NextProbe]_vars

\* POST /batch requests, one at a time, between local mutations
NextBatch ==
    \/ batch = <<>> /\ TaskMutation
    \/ \E items \in BatchBodies :
          \E checksum \in {calculateChecksum(items), calculateChecksum(<<>>)} :
              PostBatch(items, checksum)
    \/ BatchDone

SpecBatch == Init /\ [][NextBatch]_vars

\* local calls of TaskService on any id, while the wall clock advances
NextLocal ==
    \/ \E t \in TaskIds : createTask(t)
    \/ \E t \in TaskIds : UpdateTaskCall(t)
    \/ \E t \in TaskIds : DeleteTaskCall(t)
    \/ \E t \in TaskIds, op \in Ops : addToSyncQueue(t, op)
    \/ Tick

SpecLocal == Init /\ [][NextLocal]_vars

\* resolveConflict applied to one pair of versions
NextConflict == ResolveConflict

SpecConflict == InitConflict /\ [][NextConflict]_vars

\* ---- properties ----
DeadLetterCount(id) == Cardinality({i \in 1..Len(dead_letter_queue) : dead_letter_queue[i].id = id})
NoDuplicates(seq) == \A i, j \in 1..Len(seq) : i # j => seq[i] # seq[j]
Result(c) == response[c].result[1]
Returned(c) == pc[c] = "responded" /\ response[c].status = 200
InQueueFor(t) == \E k \in 1..Len(sync_queue) : Owner(sync_queue[k]) = t

\* C1: once the remote peer has failed max_attempts requests of an entry and no cycle is
\* running, the entry has been sent exactly max_attempts times, is gone from the sync
\* queue, is in the dead-letter queue exactly once, and its task has sync_status 'failed'.
C1_BoundedRetries ==
    \A e \in EntryIds :
        (failures[e] >= MAX_ATTEMPTS /\ \A c \in Cycles : pc[c] = "idle") =>
            /\ Len(sent[e]) = MAX_ATTEMPTS
            /\ ~HasRow(sync_queue, e)
            /\ DeadLetterCount(e) = 1
            /\ \A i \in 1..Len(dead_letter_queue) :
                    dead_letter_queue[i].id = e =>
                        tasks[dead_letter_queue[i].task_id].sync_status = "failed"

\* C2: a POST /sync whose connectivity probe fails returns a SyncResult with
\* success = false and a connectivity error, sends nothing, and leaves every attempt
\* counter as it was.
C2_OfflineAbort ==
    [][\A c \in Cycles :
        PostSyncOffline(c) =>
            /\ Len(response'[c].result) = 1
            /\ ~response'[c].result[1].success
            /\ Len(response'[c].result[1].errors) = 1
            /\ sync_queue' = sync_queue
            /\ sent' = sent]_vars

\* C3: overlapping sync() invocations never send the same entry twice at the same
\* attempt-counter value.
C3_SingleFlight == \A e \in EntryIds : NoDuplicates(sent[e])

\* C4: while the request of a 'delete' entry of task T is in flight, no 'update' entry of
\* T enqueued before it is still in the sync queue.
C4_PerTaskOrdering ==
    \A c \in Cycles :
        (pc[c] = "request" /\ CurrentItem(c).operation = "delete") =>
            \A k \in 1..Len(sync_queue) :
                ~ /\ sync_queue[k].operation = "update"
                  /\ sync_queue[k].task_id = CurrentItem(c).task_id
                  /\ sync_queue[k].id < CurrentItem(c).id

\* C5: a queue row is deleted as successful only when a remote request was issued for
\* its entry.
C5_RemovedOnlyAfterRequest ==
    \A c \in Cycles : pc[c] = "mark" => Len(sent[CurrentItem(c).id]) > 0

\* C6: when sync() returns without a failed item, success is true, synced_items is the
\* number of selected entries, none of them is left in the queue, and every owning task
\* that exists and has no newer entry queued is 'synced' with last_synced_at set.
C6_SuccessPath ==
    \A c \in Cycles :
        (Returned(c) /\ Result(c).failed_items = 0) =>
            /\ Result(c).success
            /\ Result(c).synced_items = Len(queueItems[c])
            /\ \A k \in 1..Len(queueItems[c]) :
                /\ ~HasRow(sync_queue, queueItems[c][k].id)
                /\ LET t == Owner(queueItems[c][k])
                   IN (tasks[t].exists /\ ~InQueueFor(t)) =>
                        /\ tasks[t].sync_status = "synced"
                        /\ tasks[t].last_synced_at # NoTime

\* C7: sync() on a queue without eligible entry returns success = true, 0 synced,
\* 0 failed and no error, sends nothing, and changes no table.
C7_EmptyQueueIdempotent ==
    [][\A c \in Cycles :
        (SyncBegin(c) /\ \A k \in 1..Len(sync_queue) : sync_queue[k].attempts >= MAX_ATTEMPTS) =>
            /\ pc'[c] = "responded"
            /\ response'[c] = Http200(SyncResult(TRUE, 0, 0, <<>>))
            /\ sent' = sent
            /\ tasks' = tasks
            /\ sync_queue' = sync_queue
            /\ dead_letter_queue' = dead_letter_queue]_vars

\* C7 witness: sync() has returned the empty result while exhausted rows are in the queue
C7_Witness ==
    /\ Returned(1)
    /\ Result(1) = SyncResult(TRUE, 0, 0, <<>>)
    /\ Len(sync_queue) > 0
    /\ \A k \in 1..Len(sync_queue) : sync_queue[k].attempts >= MAX_ATTEMPTS

\* C8: recording a checksum rejection does not raise the attempt counter of the rejected
\* entry.
C8_ChecksumPenaltyFree ==
    [][\A c \in Cycles :
        (pc[c] = "record" /\ errMsg[c] = "checksum") =>
            \A k \in 1..Len(sync_queue) :
                (k <= Len(sync_queue') /\ sync_queue[k].id = CurrentItem(c).id) =>
                    sync_queue'[k].attempts = sync_queue[k].attempts]_vars

\* C10: no state has the row of a confirmed entry deleted while its task is not marked
\* synced, and no dead-letter row exists for an entry that is still in the sync queue.
C10_AtomicOutcome ==
    /\ \A c \in Cycles :
        (pc[c] = "mark" /\ IssuesRequest(CurrentItem(c))
            /\ tasks[Owner(CurrentItem(c))].exists) =>
                tasks[Owner(CurrentItem(c))].sync_status = "synced"
    /\ \A i \in 1..Len(dead_letter_queue) : ~HasRow(sync_queue, dead_letter_queue[i].id)

\* C9: resolveConflict returns the version with the strictly newer updated_at; on equal
\* instants the version that alone is deleted; in every other tie the local version; and
\* what it returns is one of its two arguments.
C9_ConflictResolution ==
    resolved # <<>> =>
        LET r == resolved[1]
            lt == localTask.updated_at.ms
            st == serverTask.updated_at.ms
        IN  /\ lt > st => r = localTask
            /\ st > lt => r = serverTask
            /\ (lt = st /\ localTask.is_deleted /\ ~serverTask.is_deleted) => r = localTask
            /\ (lt = st /\ serverTask.is_deleted /\ ~localTask.is_deleted) => r = serverTask
            /\ (lt = st /\ localTask.is_deleted = serverTask.is_deleted) => r = localTask
            /\ r \in {localTask, serverTask}

\* C9 witness: a tie on the instant, only the remote version deleted, the remote version returned
C9_Witness ==
    /\ resolved # <<>>
    /\ localTask.updated_at.ms = serverTask.updated_at.ms
    /\ localTask.updated_at.fmt # serverTask.updated_at.fmt
    /\ serverTask.is_deleted /\ ~localTask.is_deleted
    /\ resolved[1] = serverTask

\* C11: under repeated sync cycles every entry of the sync queue eventually leaves the
\* queue (deleted after a success, or moved to the dead-letter queue at the limit).
C11_EventualDelivery ==
    \A e \in EntryIds : HasRow(sync_queue, e) ~> ~HasRow(sync_queue, e)

\* C12: when a dispatch fails and the incremented counter is still below max_attempts, the
\* entry stays in the sync queue with its counter one higher and the error recorded, and
\* the task it belongs to gets sync_status 'error'.
C12_RetryBelowLimit ==
    [][\A c \in Cycles :
         (/\ pc[c] = "record"
          /\ pc'[c] # "record"
          /\ tasks[Owner(CurrentItem(c))].exists
          /\ \E k \in 1..Len(sync_queue) :
                /\ sync_queue[k].id = CurrentItem(c).id
                /\ sync_queue[k].attempts + 1 < MAX_ATTEMPTS)
         => /\ \E k \in 1..Len(sync_queue) :
                 /\ sync_queue[k].id = CurrentItem(c).id
                 /\ Len(sync_queue') >= k
                 /\ sync_queue'[k].id = sync_queue[k].id
                 /\ sync_queue'[k].attempts = sync_queue[k].attempts + 1
                 /\ sync_queue'[k].error_message = errMsg[c]
            /\ tasks'[Owner(CurrentItem(c))].sync_status = "error"]_vars

\* C13: the result of a cycle has success = true exactly when its failed_items is 0, and
\* failed_items counts the failed dispatches the result lists.
C13_SuccessIffNoFailure ==
    \A c \in Cycles :
        Returned(c) =>
            /\ Result(c).success <=> (Result(c).failed_items = 0)
            /\ Result(c).failed_items = Len(Result(c).errors)

\* a cycle returned after one dispatch succeeded and another failed
C13_Witness ==
    /\ Returned(1)
    /\ Result(1).synced_items > 0
    /\ Result(1).failed_items > 0
    /\ ~Result(1).success

C15_EligibleOnly ==
    [][\A e \in EntryIds :
         sent'[e] # sent[e] =>
             /\ sent'[e][Len(sent'[e])] < MAX_ATTEMPTS
             /\ \A k \in 1..Len(sync_queue) :
                   sync_queue[k].id = e => sync_queue[k].attempts < MAX_ATTEMPTS]_vars

\* the kind of mutation a queue row records, in whichever column it was written
RecordedKind(row) == IF row.operation # NULL THEN row.operation ELSE row.operation_type

\* C16: every createTask, updateTask and deleteTask appends exactly one row to the sync
\* queue, with attempts = 0, the id of the mutated task as task_id and the kind of the
\* mutation as operation, and leaves the rows already queued as they were.
C16_FaithfulEnqueue ==
    [][\A t \in TaskIds :
         ((tasks'[t] # tasks[t]) /\ UNCHANGED pc) =>
             /\ Len(sync_queue') = Len(sync_queue) + 1
             /\ SubSeq(sync_queue', 1, Len(sync_queue)) = sync_queue
             /\ LET row == sync_queue'[Len(sync_queue')] IN
                /\ row.attempts = 0
                /\ row.task_id = t
                /\ \/ RecordedKind(row) = "create" /\ ~tasks[t].exists
                   \/ RecordedKind(row) = "update" /\ tasks[t].exists /\ ~tasks'[t].is_deleted
                   \/ RecordedKind(row) = "delete" /\ tasks'[t].is_deleted]_vars

\* C17: while the delete entry of a deleted task is still in the sync queue, the task is
\* absent from getAllTasks and getTask and is returned by getTasksNeedingSync.
C17_TombstoneVisibility ==
    \A t \in TaskIds :
        (/\ tasks[t].exists
         /\ tasks[t].is_deleted
         /\ \E k \in 1..Len(sync_queue) :
               Owner(sync_queue[k]) = t /\ RecordedKind(sync_queue[k]) = "delete")
        => /\ t \notin getAllTasks(tasks)
           /\ getTask(tasks, t) = <<>>
           /\ t \in getTasksNeedingSync(tasks)

\* C18: the first validation rejection of an entry moves it out of the sync queue into the
\* dead-letter queue.
C18_ValidationBypassesRetry ==
    [][\A c \in Cycles :
         (pc[c] = "record" /\ pc'[c] # "record" /\ errMsg[c] = "validation") =>
             /\ ~HasRow(sync_queue', CurrentItem(c).id)
             /\ \E i \in 1..Len(dead_letter_queue') :
                   dead_letter_queue'[i].id = CurrentItem(c).id]_vars

C20_ProbeNeverRaises ==
    [][probe' # probe =>
         /\ ~probe'[1].answer.raised
         /\ probe'[1].answer.value <=>
                (probe'[1].health.kind = "response" /\ probe'[1].health.status = 200)
         /\ UNCHANGED <<tasks, sync_queue, dead_letter_queue>>]_vars

\* a probe whose health request timed out has returned false while an entry is queued
C20_Witness ==
    /\ probe # <<>>
    /\ probe[1].health.kind = "timeout"
    /\ ~probe[1].answer.raised
    /\ ~probe[1].answer.value
    /\ Len(sync_queue) > 0

\* C21: when an entry that carries a task_id is escalated, one dead-letter row mirroring it
\* (same id, task_id, operation and payload) is inserted and only that entry leaves the sync
\* queue: every other row, those of the same task included, stays as it was.
C21_EscalationRemovesOne ==
    [][Len(dead_letter_queue') > Len(dead_letter_queue) =>
         LET dl == dead_letter_queue'[Len(dead_letter_queue')] IN
         (dl.task_id # NULL) =>
             /\ Len(dead_letter_queue') = Len(dead_letter_queue) + 1
             /\ \E k \in 1..Len(sync_queue) :
                   /\ sync_queue[k].id = dl.id
                   /\ sync_queue[k].task_id = dl.task_id
                   /\ sync_queue[k].operation = dl.operation
                   /\ sync_queue[k].snapshot = dl.snapshot
             /\ sync_queue' = DeleteById(sync_queue, dl.id)]_vars

\* C22: for a batch whose checksum verifies, the /batch handler answers with one result per
\* item, in the order of the items, each carrying the item's task_id and operation;
\* synced_items + failed_items is the number of items; an item that throws gets a failed
\* result and the items after it are still applied (each applied mutation enqueues a row).
C22_BatchAlignment ==
    [][(batch = <<>> /\ batch' # <<>> /\ batch'[1].verified) =>
         LET items == batch'[1].items
             resp == batch'[1].response
         IN  /\ resp.status = 200
             /\ Len(resp.results) = Len(items)
             /\ \A k \in 1..Len(items) :
                   /\ resp.results[k].id = items[k].id
                   /\ resp.results[k].task_id = items[k].task_id
                   /\ resp.results[k].operation = items[k].operation
                   /\ resp.results[k].success <=> (items[k].data # NULL)
             /\ resp.synced_items + resp.failed_items = Len(items)
             /\ Len(sync_queue') - Len(sync_queue) =
                   Cardinality({k \in 1..Len(resp.results) :
                                   resp.results[k].data \in {"task", "true"}})]_vars

\* a verified batch whose first item threw and whose second item was applied
C22_Witness ==
    /\ batch # <<>>
    /\ batch[1].verified
    /\ Len(batch[1].items) = 2
    /\ batch[1].items[1].data = NULL
    /\ ~batch[1].response.results[1].success
    /\ batch[1].response.results[2].success
    /\ batch[1].response.results[2].data = "task"
    /\ batch[1].response.failed_items = 1

\* C23: a task whose sync_status is 'synced' has no entry left in the sync queue.
C23_SyncedMeansNothingPending ==
    \A t \in TaskIds :
        (tasks[t].exists /\ tasks[t].sync_status = "synced") => ~InQueueFor(t)

\* C24: the attempt counter of every queue entry is between 0 and max_attempts, and it
\* counts failed dispatches of the entry: it is never above the number of requests of the
\* entry that the remote peer has failed.
C24_AttemptBounds ==
    \A k \in 1..Len(sync_queue) :
        /\ sync_queue[k].attempts >= 0
        /\ sync_queue[k].attempts <= MAX_ATTEMPTS
        /\ sync_queue[k].attempts <= failures[sync_queue[k].id]

\* C25: the step that marks a task synced after a successful sync of an entry leaves the
\* updated_at, completed and is_deleted fields of every task as they were.
C25_MarkSyncedKeepsUpdatedAt ==
    [][\A c \in Cycles :
         (pc[c] = "mark" /\ pc'[c] # "mark") =>
             \A t \in TaskIds :
                 /\ tasks'[t].exists = tasks[t].exists
                 /\ tasks'[t].updated_at = tasks[t].updated_at
                 /\ tasks'[t].completed = tasks[t].completed
                 /\ tasks'[t].is_deleted = tasks[t].is_deleted]_vars

\* the selected entries of a returned cycle whose dispatch failed, in selection order: with
\* one cycle at a time these are the selected entries whose row is still in the sync queue
FailedItems(c) == SelectSeq(queueItems[c], LAMBDA item : HasRow(sync_queue, item.id))

\* C26: when a cycle returns, synced_items + failed_items is the number of entries it
\* selected, the errors list has failed_items elements, and its elements name the task_id
\* and operation of the failed entries in the order these were dispatched.
C26_ResultAccounting ==
    \A c \in Cycles :
        Returned(c) =>
            /\ Result(c).synced_items + Result(c).failed_items = Len(queueItems[c])
            /\ Len(Result(c).errors) = Result(c).failed_items
            /\ Len(FailedItems(c)) = Result(c).failed_items
            /\ \A k \in 1..Len(Result(c).errors) :
                  /\ Result(c).errors[k].task_id = FailedItems(c)[k].task_id
                  /\ Result(c).errors[k].operation = FailedItems(c)[k].operation

\* a cycle returned with two failed entries that differ in task or operation
C26_Witness ==
    /\ Returned(1)
    /\ Result(1).failed_items = 2
    /\ Result(1).errors[1] # Result(1).errors[2]

\* C27: updateTask on an id that does not exist or is soft-deleted returns null, deleteTask
\* on an id that does not exist returns false, and in both cases no task row changes and
\* no row is appended to the sync queue.
C27_RejectedMutations ==
    [][(lastCall' # lastCall) =>
         LET call == lastCall'[1] IN
         /\ (call.method = "updateTask"
                /\ ~(tasks[call.id].exists /\ ~tasks[call.id].is_deleted))
            => (call.ret = "null" /\ UNCHANGED <<tasks, sync_queue, nextId>>)
         /\ (call.method = "deleteTask" /\ ~tasks[call.id].exists)
            => (call.ret = "false" /\ UNCHANGED <<tasks, sync_queue, nextId>>)]_vars

\* updateTask has just been rejected for a soft-deleted task
C27_Witness ==
    /\ lastCall # <<>>
    /\ lastCall[1].method = "updateTask"
    /\ lastCall[1].ret = "null"
    /\ tasks[lastCall[1].id].exists
    /\ tasks[lastCall[1].id].is_deleted

====
